---- MODULE Spec2Model ----
(***************************************************************************)
(* The GELF datagram writer of cantor-systems/logger (src/logger.go).      *)
(*                                                                         *)
(* writer.Write compresses one record, decides between one unchunked       *)
(* datagram and a sequence of chunk datagrams, and hands every datagram    *)
(* to the connection.  The connection, the random source and the output    *)
(* length of the gzip/zlib compressors are the environment: every step     *)
(* that asks them draws their answer from a small set.                     *)
(*                                                                         *)
(* Byte strings.  A record may need 128 chunks of 1408 bytes, so a byte    *)
(* string is kept as a sequence of segments instead of one value per       *)
(* byte.  A segment [src, off, len] stands for the bytes off..off+len-1    *)
(* of the buffer named src ("in": the record handed to Write, "gzip" and   *)
(* "zlib": the output of that compressor); bytes the code writes itself    *)
(* (the chunk header) are a segment of src "lit" that carries them in lit. *)
(* Byte strings are kept normalised (no empty segment, adjacent segments   *)
(* that continue each other merged), so two byte strings are equal         *)
(* exactly when they hold the same bytes of the same buffers in the same   *)
(* order.                                                                  *)
(***************************************************************************)
EXTENDS Integers, Sequences, FiniteSets, TLC

\* ---------------------------------------------------------------- constants

MaxChunkCount == 128

DefaultChunkSize == 1420

CompressionNone == 0

CompressionGzip == 1

CompressionZlib == 2

\* gzip.BestCompression, the level New configures
BestCompression == 9

\* gzip.HuffmanOnly, the lowest level NewWriterLevel accepts
HuffmanOnly == -2

\* the chunk header: 2 magic bytes, 8 message id bytes, index, count
ChunkHeaderSize == 12

chunkedMagicBytes == <<30, 15>>

\* ------------------------------------------------------------------- bounds

\* goroutines that call Write on the one writer
NumCallers == 2

\* distinct 8-byte values the random source may deliver
NumMessageIDs == 2

Callers == 1..NumCallers

\* the payload capacity of a chunk under the default chunk size
cap == DefaultChunkSize - ChunkHeaderSize

MessageIDs == { [j \in 1..8 |-> (16 * k + j) % 256] : k \in 1..NumMessageIDs }

\* lengths of the records handed to Write
InputLens ==
    { 1, 11, DefaultChunkSize, DefaultChunkSize + 1, 3000, 5 * cap,
      (MaxChunkCount + 1) * cap }

\* lengths a gzip or zlib stream may come out at
CompLens ==
    { 23, cap - 1, cap, cap + 1, DefaultChunkSize, DefaultChunkSize + 1,
      2 * cap, 2 * cap + 1, 5 * cap,
      MaxChunkCount * cap - 1, MaxChunkCount * cap, MaxChunkCount * cap + 1 }

\* compression levels a writer may be configured with: the one New sets and
\* the first one NewWriterLevel rejects
Levels == { BestCompression, BestCompression + 1 }

\* ------------------------------------------------------------- byte strings

\* the bytes off..off+len-1 of the buffer s
Seg(s, o, l) == [src |-> s, off |-> o, len |-> l, lit |-> << >>]

\* the whole buffer s of l bytes
Buffer(s, l) == IF l = 0 THEN << >> ELSE << Seg(s, 0, l) >>

\* []byte{...}: the bytes bs themselves
Literal(bs) ==
    IF bs = << >> THEN << >>
    ELSE << [src |-> "lit", off |-> 0, len |-> Len(bs), lit |-> bs] >>

RECURSIVE BLenFrom(_, _)
BLenFrom(b, k) == IF k > Len(b) THEN 0 ELSE b[k].len + BLenFrom(b, k + 1)

\* len(b)
BLen(b) == BLenFrom(b, 1)

\* segment b continues segment a
Joins(a, b) == a.src = b.src /\ (a.src = "lit" \/ a.off + a.len = b.off)

Merge(a, b) ==
    [src |-> a.src, off |-> a.off, len |-> a.len + b.len, lit |-> a.lit \o b.lit]

\* bytes.Buffer.Write: x followed by y
BCat(x, y) ==
    IF x = << >> THEN y
    ELSE IF y = << >> THEN x
    ELSE LET a == x[Len(x)]
             b == y[1]
         IN  IF Joins(a, b)
             THEN SubSeq(x, 1, Len(x) - 1) \o << Merge(a, b) >> \o Tail(y)
             ELSE x \o y

\* the bytes lo..hi-1 of the segment h
SegSlice(h, lo, hi) ==
    IF h.src = "lit"
    THEN [src |-> "lit", off |-> 0, len |-> hi - lo, lit |-> SubSeq(h.lit, lo + 1, hi)]
    ELSE Seg(h.src, h.off + lo, hi - lo)

RECURSIVE BSliceFrom(_, _, _, _)
\* the bytes lo..hi-1 of b, counted from the start of its k-th segment
BSliceFrom(b, k, lo, hi) ==
    IF k > Len(b) \/ hi <= lo THEN << >>
    ELSE LET h == b[k] IN
         IF lo >= h.len THEN BSliceFrom(b, k + 1, lo - h.len, hi - h.len)
         ELSE BCat(<< SegSlice(h, lo, IF hi < h.len THEN hi ELSE h.len) >>,
                   BSliceFrom(b, k + 1, 0, hi - h.len))

\* b[lo:hi]
BSlice(b, lo, hi) == BSliceFrom(b, 1, lo, hi)

\* ------------------------------------------------------------------- state

VARIABLES
    w,          \* the writer: chunkSize, chunkDataSize, compressionType, compressionLevel
    pc,         \* where each caller's Write call stands
    buf,        \* Write's argument
    cBytes,     \* the compressed payload, cBuf.Bytes()
    count,      \* chunkCount(cBytes)
    nChunks,    \* uint8(count)
    messageID,  \* the 8 bytes read from rand.Reader
    i,          \* the chunk loop's index, a uint8
    bytesLeft,  \* payload bytes not yet sent
    n,          \* the byte count Write returns
    err,        \* the error Write returns, "nil" for none
    sent,       \* the datagrams the call handed to conn.Write, with conn's answers
    randReads,  \* reads of rand.Reader made by the call
    randGot,    \* the byte count io.ReadFull returned to the call
    chunkBuf,   \* writeChunked's cBuf, the buffer a chunk datagram is built in
    logger      \* what New did: the dial, the core it installed, what it returned

vars == << w, pc, buf, cBytes, count, nChunks, messageID, i, bytesLeft, n, err,
           sent, randReads, randGot, chunkBuf, logger >>

\* ------------------------------------------------------- the writer's steps

\* a conversion that keeps 7 bits
uint8Narrow(x) == x % 128

uint8(x) == x % 256

\* New: the writer literal
NewWriter(type, level) ==
    [ chunkSize        |-> DefaultChunkSize,
      chunkDataSize    |-> DefaultChunkSize - ChunkHeaderSize,
      compressionType  |-> type,
      compressionLevel |-> level ]

\* a compressor set up whatever the level
NewWriterLevelNeverFails(wr) == FALSE

\* gzip.NewWriterLevel / zlib.NewWriterLevel fail on a level out of range
NewWriterLevelFails(wr) ==
    /\ wr.compressionType \in { CompressionGzip, CompressionZlib }
    /\ \/ wr.compressionLevel < HuffmanOnly
       \/ wr.compressionLevel > BestCompression

\* a deflate stream is never longer than its input plus the stored-block and
\* framing overhead
Expansion(l) == 18 + 5 * (l \div 65535 + 1)

\* lengths the compressor may produce for the record b
StreamLens(b) == { z \in CompLens : z <= BLen(b) + Expansion(BLen(b)) }

\* cBuf.Bytes() after cw.Write(buf) and cw.Close(); z is the length of the
\* stream a compressor produced
Compressed(wr, b, z) ==
    IF wr.compressionType = CompressionNone
    THEN \* cw = &writeCloser{cBuf} copies the empty cBuf into cw; cw.Write
         \* appends to that copy and cBuf itself stays as declared
         LET cBuf == << >>
             cw   == [ Buffer |-> cBuf ]
             cwAfterWrite == [ Buffer |-> BCat(cw.Buffer, b) ]
         IN  cBuf
    ELSE IF wr.compressionType = CompressionGzip
    THEN Buffer("gzip", z)
    ELSE Buffer("zlib", z)

\* the count without the chunk for the remainder
chunkCountFloor(wr, b) ==
    LET lenB == BLen(b) IN
    IF lenB <= wr.chunkSize THEN 1 ELSE BLen(b) \div wr.chunkDataSize

\* the threshold taken at the chunk payload capacity instead of the chunk size
chunkCountByCapacity(wr, b) ==
    LET lenB == BLen(b) IN
    IF lenB <= wr.chunkDataSize THEN 1 ELSE BLen(b) \div wr.chunkDataSize + 1

chunkCount(wr, b) ==
    LET lenB == BLen(b) IN
    IF lenB <= wr.chunkSize THEN 1 ELSE BLen(b) \div wr.chunkDataSize + 1

\* a pre-flight check that lets one chunk too many through
TooManyChunksLate(c) == c > MaxChunkCount + 1

\* writeChunked's pre-flight check
TooManyChunks(c) == c > MaxChunkCount

\* offsets that step by the datagram size
ChunkOffByChunkSize(wr, k) == k * wr.chunkSize

\* off = int(i) * w.chunkDataSize
ChunkOff(wr, k) == k * wr.chunkDataSize

\* the payload part cut at the chunk size, header not allowed for
ChunkLenByChunkSize(wr, left) == IF wr.chunkSize > left THEN left ELSE wr.chunkSize

\* chunkLen = min(w.chunkDataSize, bytesLeft)
ChunkLen(wr, left) == IF wr.chunkDataSize > left THEN left ELSE wr.chunkDataSize

\* the chunk datagram built in cBuf
ChunkDatagram(id, k, total, part) ==
    BCat(BCat(BCat(BCat(Literal(chunkedMagicBytes), Literal(id)),
                   Literal(<< k >>)), Literal(<< total >>)), part)

\* answers of conn.Write for a datagram of l bytes
ConnWrite(l) == { [n |-> k, err |-> e] : k \in { 0, 1, l } \cap 0..l, e \in BOOLEAN }

\* answers of io.ReadFull(rand.Reader, messageID): all 8 bytes and no error, or
\* fewer bytes and an error
ReadFull == { [n |-> 8, err |-> FALSE] } \cup { [n |-> k, err |-> TRUE] : k \in { 0, 7 } }

\* a test that only sees a read that delivered nothing
RandFailedOnlyIfEmpty(r) == r.n = 0

\* err != nil || n != 8 after io.ReadFull
RandFailed(r) == r.err \/ r.n # 8

\* an error test that lets an error through when bytes were accepted
ConnFailedOnlyIfNothingSent(r) == r.err /\ r.n = 0

\* the err != nil test after conn.Write
ConnFailed(r) == r.err

\* no test of the accepted byte count
ShortWriteIgnored(r, d) == FALSE

\* the n != len(...) test after a conn.Write that returned no error
ShortWrite(r, d) == r.n # BLen(d)

\* the count of the last conn.Write alone
SentSoFarLastWrite(total, left, k) == k

\* len(cBytes) - bytesLeft + n
SentSoFar(total, left, k) == total - left + k

\* one chunk buffer for all calls, as a field of the writer would be
BufOwnerShared(c) == 1

\* whose buffer a call builds its chunks in: cBuf is a local of writeChunked
BufOwner(c) == c

\* before New has run
NoLogger ==
    [ built |-> FALSE, address |-> "", dials |-> 0, dialFailed |-> FALSE,
      core |-> "none", result |-> "none", err |-> "nil" ]

\* no call of Write has started
InitCalls ==
    /\ pc = [c \in Callers |-> "idle"]
    /\ buf = [c \in Callers |-> << >>]
    /\ cBytes = [c \in Callers |-> << >>]
    /\ count = [c \in Callers |-> 0]
    /\ nChunks = [c \in Callers |-> 0]
    /\ messageID = [c \in Callers |-> << >>]
    /\ i = [c \in Callers |-> 0]
    /\ bytesLeft = [c \in Callers |-> 0]
    /\ n = [c \in Callers |-> 0]
    /\ err = [c \in Callers |-> "nil"]
    /\ sent = [c \in Callers |-> << >>]
    /\ randReads = [c \in Callers |-> 0]
    /\ randGot = [c \in Callers |-> 0]
    /\ chunkBuf = [c \in Callers |-> << >>]

\* a writer of any of the three compression types, as a literal like New's
Init ==
    /\ w \in { NewWriter(t, l) :
                 t \in { CompressionNone, CompressionGzip, CompressionZlib },
                 l \in Levels }
    /\ InitCalls
    /\ logger = NoLogger

\* return k, e
Returns(c, k, e) ==
    /\ pc' = [pc EXCEPT ![c] = "done"]
    /\ n' = [n EXCEPT ![c] = k]
    /\ err' = [err EXCEPT ![c] = e]

\* Write up to the choice of path, and writeChunked's pre-flight check, for a
\* record of one of the lengths lens
Begin(c, lens) ==
    /\ pc[c] = "idle"
    /\ \E l \in lens :
         LET b == Buffer("in", l) IN
         /\ buf' = [buf EXCEPT ![c] = b]
         /\ IF NewWriterLevelFails(w)
            THEN /\ Returns(c, 0, "level")
                 /\ UNCHANGED << cBytes, count >>
            ELSE \E z \in StreamLens(b) :
                   LET cb  == Compressed(w, b, z)
                       cnt == chunkCount(w, cb)
                   IN  /\ cBytes' = [cBytes EXCEPT ![c] = cb]
                       /\ count' = [count EXCEPT ![c] = cnt]
                       /\ IF cnt > 1
                          THEN IF TooManyChunks(cnt)
                               THEN Returns(c, 0, "chunks")
                               ELSE /\ pc' = [pc EXCEPT ![c] = "rand"]
                                    /\ UNCHANGED << n, err >>
                          ELSE /\ pc' = [pc EXCEPT ![c] = "send"]
                               \* n, err = cw.Write(buf)
                               /\ n' = [n EXCEPT ![c] = l]
                               /\ UNCHANGED err
    /\ UNCHANGED << w, nChunks, messageID, i, bytesLeft, sent, randReads, randGot,
                    chunkBuf, logger >>

\* the unchunked path: w.conn.Write(cBytes)
SendUnchunked(c) ==
    /\ pc[c] = "send"
    /\ \E r \in ConnWrite(BLen(cBytes[c])) :
         /\ sent' = [sent EXCEPT ![c] = Append(@, [data |-> cBytes[c], n |-> r.n, err |-> r.err])]
         /\ IF ConnFailed(r)
            THEN Returns(c, r.n, "conn")
            ELSE IF ShortWrite(r, cBytes[c])
            THEN Returns(c, r.n, "short")
            ELSE Returns(c, r.n, "nil")
    /\ UNCHANGED << w, buf, cBytes, count, nChunks, messageID, i, bytesLeft, randReads,
                    randGot, chunkBuf, logger >>

\* writeChunked: nChunks, io.ReadFull(rand.Reader, messageID), the loop's variables
ReadMessageID(c) ==
    /\ pc[c] = "rand"
    /\ randReads' = [randReads EXCEPT ![c] = @ + 1]
    /\ nChunks' = [nChunks EXCEPT ![c] = uint8(count[c])]
    /\ \E r \in ReadFull :
         /\ randGot' = [randGot EXCEPT ![c] = r.n]
         /\ IF RandFailed(r)
            THEN /\ Returns(c, 0, "rand")
                 /\ UNCHANGED << messageID, i, bytesLeft >>
            ELSE \E id \in MessageIDs :
                   /\ messageID' = [messageID EXCEPT ![c] = id]
                   /\ i' = [i EXCEPT ![c] = 0]
                   /\ bytesLeft' = [bytesLeft EXCEPT ![c] = BLen(cBytes[c])]
                   /\ pc' = [pc EXCEPT ![c] = "chunk"]
                   /\ UNCHANGED << n, err >>
    /\ UNCHANGED << w, buf, cBytes, count, sent, chunkBuf, logger >>

\* one pass of writeChunked's loop
SendChunk(c) ==
    /\ pc[c] = "chunk"
    /\ i[c] < nChunks[c]
    /\ LET off      == ChunkOff(w, i[c])
           chunkLen == ChunkLen(w, bytesLeft[c])
           cBuf     == ChunkDatagram(messageID[c], i[c], nChunks[c],
                                     BSlice(cBytes[c], off, off + chunkLen))
       IN  \E r \in ConnWrite(BLen(cBuf)) :
             /\ chunkBuf' = [chunkBuf EXCEPT ![BufOwner(c)] = cBuf]
             /\ sent' = [sent EXCEPT ![c] = Append(@, [data |-> cBuf, n |-> r.n, err |-> r.err])]
             /\ IF ConnFailed(r)
                THEN /\ Returns(c, SentSoFar(BLen(cBytes[c]), bytesLeft[c], r.n), "conn")
                     /\ UNCHANGED << i, bytesLeft >>
                ELSE IF ShortWrite(r, cBuf)
                THEN /\ Returns(c, SentSoFar(BLen(cBytes[c]), bytesLeft[c], r.n), "short")
                     /\ UNCHANGED << i, bytesLeft >>
                ELSE /\ bytesLeft' = [bytesLeft EXCEPT ![c] = @ - chunkLen]
                     /\ i' = [i EXCEPT ![c] = uint8(@ + 1)]
                     /\ n' = [n EXCEPT ![c] = r.n]
                     /\ UNCHANGED << pc, err >>
    /\ UNCHANGED << w, buf, cBytes, count, nChunks, messageID, randReads, randGot, logger >>

\* after the loop
LoopExit(c) ==
    /\ pc[c] = "chunk"
    /\ ~ (i[c] < nChunks[c])
    /\ IF bytesLeft[c] # 0
       THEN Returns(c, BLen(cBytes[c]) - bytesLeft[c], "left")
       ELSE Returns(c, BLen(cBytes[c]), "nil")
    /\ UNCHANGED << w, buf, cBytes, count, nChunks, messageID, i, bytesLeft, sent, randReads,
                    randGot, chunkBuf, logger >>

\* a call of Write by c, one call at a time
Write(c) ==
    /\ \A d \in Callers : pc[d] = "idle"
    /\ Begin(c, InputLens)

\* a return that leaves the call's message ID and chunk buffer where the
\* next call finds them
ReturnKeepingScratch(c) ==
    /\ pc[c] = "done"
    /\ pc' = [pc EXCEPT ![c] = "idle"]
    /\ buf' = [buf EXCEPT ![c] = << >>]
    /\ cBytes' = [cBytes EXCEPT ![c] = << >>]
    /\ count' = [count EXCEPT ![c] = 0]
    /\ nChunks' = [nChunks EXCEPT ![c] = 0]
    /\ i' = [i EXCEPT ![c] = 0]
    /\ bytesLeft' = [bytesLeft EXCEPT ![c] = 0]
    /\ n' = [n EXCEPT ![c] = 0]
    /\ err' = [err EXCEPT ![c] = "nil"]
    /\ sent' = [sent EXCEPT ![c] = << >>]
    /\ randReads' = [randReads EXCEPT ![c] = 0]
    /\ randGot' = [randGot EXCEPT ![c] = 0]
    /\ UNCHANGED << w, logger, messageID, chunkBuf >>

\* the caller takes (n, err); the call's locals are gone
Return(c) ==
    /\ pc[c] = "done"
    /\ pc' = [pc EXCEPT ![c] = "idle"]
    /\ buf' = [buf EXCEPT ![c] = << >>]
    /\ cBytes' = [cBytes EXCEPT ![c] = << >>]
    /\ count' = [count EXCEPT ![c] = 0]
    /\ nChunks' = [nChunks EXCEPT ![c] = 0]
    /\ messageID' = [messageID EXCEPT ![c] = << >>]
    /\ i' = [i EXCEPT ![c] = 0]
    /\ bytesLeft' = [bytesLeft EXCEPT ![c] = 0]
    /\ n' = [n EXCEPT ![c] = 0]
    /\ err' = [err EXCEPT ![c] = "nil"]
    /\ sent' = [sent EXCEPT ![c] = << >>]
    /\ randReads' = [randReads EXCEPT ![c] = 0]
    /\ randGot' = [randGot EXCEPT ![c] = 0]
    /\ chunkBuf' = [chunkBuf EXCEPT ![BufOwner(c)] = << >>]
    /\ UNCHANGED << w, logger >>

Next ==
    \E c \in Callers :
        \/ Write(c)
        \/ SendUnchunked(c)
        \/ ReadMessageID(c)
        \/ SendChunk(c)
        \/ LoopExit(c)
        \/ Return(c)

Spec == Init /\ [][Next]_vars

\* ------------------------------------------------------------------- New

\* configuration.GraylogAddress
Addresses == { "", "graylog:12201" }

\* no writer yet
NoWriter == [ chunkSize |-> 0, chunkDataSize |-> 0, compressionType |-> 0, compressionLevel |-> 0 ]

\* a wrapper that installs the GELF core whatever the dial returned
corewrapIgnoringDial(core, address, dialErr) ==
    IF address # "" THEN "gelf" ELSE core

\* the closure handed to zap.WrapCore
corewrap(core, address, dialErr) ==
    IF address # ""
    THEN IF dialErr THEN core ELSE "gelf"
    ELSE core

\* New: loggerConf.Build builds the production core, applies corewrap to it
\* once and returns the logger with Build's own error, which is nil for the
\* production configuration
New ==
    /\ ~ logger.built
    /\ \E address \in Addresses, dialErr \in BOOLEAN :
         LET core == corewrap("production", address, dialErr) IN
         /\ logger' = [ built      |-> TRUE,
                        address    |-> address,
                        dials      |-> IF address # "" THEN 1 ELSE 0,
                        dialFailed |-> address # "" /\ dialErr,
                        core       |-> core,
                        result     |-> "logger",
                        err        |-> "nil" ]
         /\ w' = IF core = "gelf"
                 THEN NewWriter(CompressionGzip, BestCompression)
                 ELSE w
    /\ UNCHANGED << pc, buf, cBytes, count, nChunks, messageID, i, bytesLeft, n, err,
                    sent, randReads, randGot, chunkBuf >>

\* the logger's core hands a record to its sink, the writer
LogWrite(c) ==
    /\ logger.core = "gelf"
    /\ Write(c)

InitNew ==
    /\ w = NoWriter
    /\ InitCalls
    /\ logger = NoLogger

NextNew ==
    \/ New
    \/ \E c \in Callers :
        \/ LogWrite(c)
        \/ SendUnchunked(c)
        \/ ReadMessageID(c)
        \/ SendChunk(c)
        \/ LoopExit(c)
        \/ Return(c)

SpecNew == InitNew /\ [][NextNew]_vars

\* ------------------------------------------- calls of Write that overlap

\* the two goroutines that call Write without waiting for each other
ConcCallers == { 1, 2 } \cap Callers

\* a record whose gzip stream may or may not fit one datagram
ConcInputLens == { DefaultChunkSize - 22 }

\* the chunk datagram the call c is about to build
OwnChunk(c) ==
    LET off      == ChunkOff(w, i[c])
        chunkLen == ChunkLen(w, bytesLeft[c])
    IN  ChunkDatagram(messageID[c], i[c], nChunks[c],
                      BSlice(cBytes[c], off, off + chunkLen))

\* the first half of a pass of writeChunked's loop: cBuf is filled
FillChunk(c) ==
    /\ pc[c] = "chunk"
    /\ i[c] < nChunks[c]
    /\ chunkBuf' = [chunkBuf EXCEPT ![BufOwner(c)] = OwnChunk(c)]
    /\ pc' = [pc EXCEPT ![c] = "filled"]
    /\ UNCHANGED << w, buf, cBytes, count, nChunks, messageID, i, bytesLeft, n, err,
                    sent, randReads, randGot, logger >>

\* the second half: cBuf.Bytes() goes to the connection
WriteChunk(c) ==
    /\ pc[c] = "filled"
    /\ LET chunkLen == ChunkLen(w, bytesLeft[c])
           cBuf     == chunkBuf[BufOwner(c)]
       IN  \E r \in ConnWrite(BLen(cBuf)) :
             /\ sent' = [sent EXCEPT ![c] = Append(@, [data |-> cBuf, n |-> r.n, err |-> r.err])]
             /\ IF ConnFailed(r)
                THEN /\ Returns(c, SentSoFar(BLen(cBytes[c]), bytesLeft[c], r.n), "conn")
                     /\ UNCHANGED << i, bytesLeft >>
                ELSE IF ShortWrite(r, cBuf)
                THEN /\ Returns(c, SentSoFar(BLen(cBytes[c]), bytesLeft[c], r.n), "short")
                     /\ UNCHANGED << i, bytesLeft >>
                ELSE /\ bytesLeft' = [bytesLeft EXCEPT ![c] = @ - chunkLen]
                     /\ i' = [i EXCEPT ![c] = uint8(@ + 1)]
                     /\ n' = [n EXCEPT ![c] = r.n]
                     /\ pc' = [pc EXCEPT ![c] = "chunk"]
                     /\ UNCHANGED err
    /\ UNCHANGED << w, buf, cBytes, count, nChunks, messageID, randReads, randGot,
                    chunkBuf, logger >>

\* the writer New builds, shared by the callers
InitConc ==
    /\ w = NewWriter(CompressionGzip, BestCompression)
    /\ InitCalls
    /\ logger = NoLogger

\* calls start whenever their caller is idle, and their steps interleave
NextConc ==
    \E c \in ConcCallers :
        \/ Begin(c, ConcInputLens)
        \/ SendUnchunked(c)
        \/ ReadMessageID(c)
        \/ FillChunk(c)
        \/ WriteChunk(c)
        \/ LoopExit(c)
        \/ Return(c)

SpecConc == InitConc /\ [][NextConc]_vars

\* ---------------------------------------------------- reading the datagrams

CeilDiv(a, b) == (a + b - 1) \div b

\* the bytes of a chunk datagram after its header
PayloadPart(d) == BSlice(d, ChunkHeaderSize, BLen(d))

\* the first 12 bytes of d when they are bytes the code wrote itself, else << >>
HeaderBytes(d) ==
    LET h == BSlice(d, 0, ChunkHeaderSize) IN
    IF Len(h) = 1 /\ h[1].src = "lit" /\ h[1].len = ChunkHeaderSize
    THEN h[1].lit
    ELSE << >>

\* the sequence index byte of a chunk datagram, -1 without a header
ChunkIndex(d) == LET hb == HeaderBytes(d) IN IF hb = << >> THEN -1 ELSE hb[11]

\* the total count byte of a chunk datagram, -1 without a header
ChunkTotal(d) == LET hb == HeaderBytes(d) IN IF hb = << >> THEN -1 ELSE hb[12]

HasChunkHeader(d) ==
    LET hb == HeaderBytes(d) IN
    hb # << >> /\ SubSeq(hb, 1, 2) = chunkedMagicBytes

\* conn accepted the whole datagram and reported no error
Accepted(s) == ~ s.err /\ s.n = BLen(s.data)

AllAccepted(c) == \A k \in 1..Len(sent[c]) : Accepted(sent[c][k])

RECURSIVE Reassemble(_, _, _)
\* the payload parts of the datagrams lo..hi of s, concatenated in that order
\* (halving keeps the evaluation shallow)
Reassemble(s, lo, hi) ==
    IF lo > hi THEN << >>
    ELSE IF lo = hi THEN PayloadPart(s[lo].data)
    ELSE LET mid == (lo + hi) \div 2 IN
         BCat(Reassemble(s, lo, mid), Reassemble(s, mid + 1, hi))

RECURSIVE PayloadBytes(_, _, _)
\* the number of payload bytes in the datagrams lo..hi of s
PayloadBytes(s, lo, hi) ==
    IF lo > hi THEN 0
    ELSE IF lo = hi THEN BLen(PayloadPart(s[lo].data))
    ELSE LET mid == (lo + hi) \div 2 IN
         PayloadBytes(s, lo, mid) + PayloadBytes(s, mid + 1, hi)

Chunked(c) == pc[c] # "idle" /\ BLen(cBytes[c]) > w.chunkSize

\* --------------------------------------------------------------------- C1
\* C1: with CompressionNone, a record of 1..1420 bytes whose datagram the
\* connection accepts goes out as exactly one datagram equal to the record,
\* and Write returns (len(record), nil).
C1_NonePassesThrough ==
    \A c \in Callers :
        ( /\ pc[c] = "done"
          /\ w.compressionType = CompressionNone
          /\ BLen(buf[c]) >= 1 /\ BLen(buf[c]) <= DefaultChunkSize
          /\ AllAccepted(c) )
        => /\ Len(sent[c]) = 1
           /\ sent[c][1].data = buf[c]
           /\ n[c] = BLen(buf[c])
           /\ err[c] = "nil"

\* --------------------------------------------------------------------- C2
\* C2: a compressed payload longer than the single-datagram limit that is
\* framed is framed into ceil(L / chunkDataSize) chunks, and no chunk handed
\* to the connection has an empty payload part.
C2_CountIsCeiling ==
    \A c \in Callers :
        ( Chunked(c) /\ ~ TooManyChunks(count[c]) )
        => /\ count[c] = CeilDiv(BLen(cBytes[c]), w.chunkDataSize)
           /\ \A k \in 1..Len(sent[c]) : PayloadPart(sent[c][k].data) # << >>

\* --------------------------------------------------------------------- C3
\* C3: a compressed payload of exactly 128 * chunkDataSize bytes, with the
\* random source and the connection answering well, ends with a nil error
\* and exactly 128 datagrams sent.
C3_Accepts128FullChunks ==
    \A c \in Callers :
        ( /\ pc[c] = "done"
          /\ BLen(cBytes[c]) = MaxChunkCount * w.chunkDataSize
          /\ err[c] # "rand"
          /\ AllAccepted(c) )
        => /\ err[c] = "nil"
           /\ Len(sent[c]) = MaxChunkCount

\* --------------------------------------------------------------------- C4
\* C4: a compressed payload that needs more than 128 chunks makes Write
\* return a non-nil error and the count 0, with no datagram handed to the
\* connection and the random source not read.
C4_PreflightRejection ==
    \A c \in Callers :
        ( /\ pc[c] # "idle"
          /\ CeilDiv(BLen(cBytes[c]), w.chunkDataSize) > MaxChunkCount )
        => /\ pc[c] = "done"
           /\ err[c] # "nil"
           /\ n[c] = 0
           /\ sent[c] = << >>
           /\ randReads[c] = 0

C4_Witness ==
    \E c \in Callers :
        /\ pc[c] = "done"
        /\ BLen(cBytes[c]) = MaxChunkCount * cap + 1
        /\ err[c] = "chunks"

\* --------------------------------------------------------------------- C5
\* C5: a compressed payload of at most chunkSize bytes (chunkSize itself
\* included) is handed to the connection as one datagram that is the payload
\* and nothing else; a longer one takes the chunked path, never the
\* unchunked send, and every datagram it sends starts with a chunk header.
C5_UnchunkedThreshold ==
    \A c \in Callers :
        /\ ( pc[c] = "done" /\ err[c] # "level" /\ BLen(cBytes[c]) <= w.chunkSize )
           => /\ count[c] = 1
              /\ Len(sent[c]) = 1
              /\ sent[c][1].data = cBytes[c]
        /\ ( pc[c] # "idle" /\ BLen(cBytes[c]) > w.chunkSize )
           => /\ count[c] > 1
              /\ pc[c] # "send"
              /\ \A k \in 1..Len(sent[c]) :
                     /\ HasChunkHeader(sent[c][k].data)
                     /\ sent[c][k].data # cBytes[c]

C5_Witness ==
    \E c \in Callers :
        /\ pc[c] = "done"
        /\ BLen(cBytes[c]) = DefaultChunkSize
        /\ Len(sent[c]) = 1
        /\ sent[c][1].data = cBytes[c]

\* --------------------------------------------------------------------- C6
\* C6: after a chunked Write that returned a nil error, the payload parts of
\* the datagrams sent, taken in sequence-index order and concatenated, are
\* the compressed payload, and every chunk but the last carries exactly
\* chunkDataSize payload bytes.
C6_ReassemblyRoundTrip ==
    \A c \in Callers :
        ( pc[c] = "done" /\ err[c] = "nil" /\ count[c] > 1 )
        => /\ Reassemble(sent[c], 1, Len(sent[c])) = cBytes[c]
           /\ \A k \in 1..Len(sent[c]) :
                  /\ ChunkIndex(sent[c][k].data) = k - 1
                  /\ k < Len(sent[c])
                     => BLen(PayloadPart(sent[c][k].data)) = w.chunkDataSize

C6_Witness ==
    \E c \in Callers :
        /\ pc[c] = "done" /\ err[c] = "nil"
        /\ count[c] = MaxChunkCount
        /\ Len(sent[c]) = MaxChunkCount
        /\ BLen(PayloadPart(sent[c][MaxChunkCount].data)) = cap - 1

\* --------------------------------------------------------------------- C7
\* C7: every chunk datagram of one Write call starts with the magic bytes
\* 0x1E 0x0F, carries the one message id the call read (read once), an index
\* below the total, and the same total byte, which is the chunk count of the
\* record, lies in 1..128 and is the number of datagrams of a call that
\* returned a nil error.
C7_ChunkHeader ==
    \A c \in Callers :
        count[c] > 1
        => /\ randReads[c] <= 1
           /\ pc[c] = "chunk" => nChunks[c] = count[c]
           /\ ( pc[c] = "done" /\ err[c] = "nil" ) => Len(sent[c]) = count[c]
           /\ \A k \in 1..Len(sent[c]) :
                  LET hb == HeaderBytes(sent[c][k].data) IN
                  /\ Len(hb) = ChunkHeaderSize
                  /\ SubSeq(hb, 1, 2) = chunkedMagicBytes
                  /\ SubSeq(hb, 3, 10) = messageID[c]
                  /\ SubSeq(hb, 3, 10) = SubSeq(HeaderBytes(sent[c][1].data), 3, 10)
                  /\ hb[11] >= 0
                  /\ hb[11] < hb[12]
                  /\ hb[12] = ChunkTotal(sent[c][1].data)
                  /\ hb[12] = count[c]
                  /\ hb[12] >= 1
                  /\ hb[12] <= MaxChunkCount

C7_Witness ==
    \E c \in Callers :
        /\ pc[c] = "done" /\ err[c] = "nil"
        /\ Len(sent[c]) = MaxChunkCount
        /\ ChunkIndex(sent[c][MaxChunkCount].data) = MaxChunkCount - 1
        /\ ChunkTotal(sent[c][MaxChunkCount].data) = MaxChunkCount

\* --------------------------------------------------------------------- C8
\* C8: the k-th datagram a chunked Write hands to the connection carries the
\* index k - 1, and a datagram is followed by another only when the
\* connection accepted all of it without error.
C8_SendOrder ==
    \A c \in Callers :
        count[c] > 1
        => \A k \in 1..Len(sent[c]) :
               /\ ChunkIndex(sent[c][k].data) = k - 1
               /\ k < Len(sent[c]) => Accepted(sent[c][k])

C8_Witness ==
    \E c \in Callers :
        /\ count[c] > 1
        /\ Len(sent[c]) >= 3
        /\ ~ sent[c][Len(sent[c])].err
        /\ sent[c][Len(sent[c])].n # BLen(sent[c][Len(sent[c])].data)

\* --------------------------------------------------------------------- C9
\* C9: a datagram whose send returned an error is the last one the call
\* hands to the connection, and the call has returned a non-nil error.
C9_FailFast ==
    \A c \in Callers :
        \A k \in 1..Len(sent[c]) :
            sent[c][k].err
            => /\ k = Len(sent[c])
               /\ pc[c] = "done"
               /\ err[c] # "nil"

C9_Witness ==
    \E c \in Callers :
        /\ count[c] > 2
        /\ Len(sent[c]) = 2
        /\ sent[c][2].err
        /\ sent[c][2].n = BLen(sent[c][2].data)
        /\ pc[c] = "done"

\* -------------------------------------------------------------------- C10
\* C10, as claimed: when the send of chunk k >= 1 returns an error, Write
\* returns the payload bytes of the chunks 0..k-1 and nothing else.
C10_CountIsEarlierChunksOnly ==
    \A c \in Callers :
        ( /\ pc[c] = "done" /\ count[c] > 1 /\ err[c] = "conn"
          /\ Len(sent[c]) >= 2 )
        => n[c] = PayloadBytes(sent[c], 1, Len(sent[c]) - 1)

\* C10, amended: when the send of chunk k >= 1 fails (an error, or a short
\* count), Write returns the payload bytes of the chunks 0..k-1 plus the
\* byte count the connection reported for the failing send.
C10_CountOnFailure ==
    \A c \in Callers :
        ( /\ pc[c] = "done" /\ count[c] > 1 /\ err[c] \in { "conn", "short" }
          /\ Len(sent[c]) >= 2 )
        => n[c] = PayloadBytes(sent[c], 1, Len(sent[c]) - 1)
                    + sent[c][Len(sent[c])].n

C10_Witness ==
    \E c \in Callers :
        /\ pc[c] = "done" /\ count[c] = 3 /\ err[c] = "conn"
        /\ Len(sent[c]) = 2
        /\ sent[c][2].n = 0
        /\ n[c] = cap

\* -------------------------------------------------------------------- C11
\* C11: on either path, a datagram of which the connection accepted a number
\* of bytes other than its length, reporting no error, is the last one the
\* call hands to the connection, and the call has returned a non-nil error.
C11_PartialSendDetected ==
    \A c \in Callers :
        \A k \in 1..Len(sent[c]) :
            ( ~ sent[c][k].err /\ sent[c][k].n # BLen(sent[c][k].data) )
            => /\ k = Len(sent[c])
               /\ pc[c] = "done"
               /\ err[c] # "nil"

C11_Witness ==
    \E c \in Callers :
        /\ pc[c] = "done"
        /\ count[c] = 1
        /\ Len(sent[c]) = 1
        /\ ~ sent[c][1].err
        /\ sent[c][1].n = 1
        /\ BLen(sent[c][1].data) = DefaultChunkSize
        /\ err[c] = "short"

\* -------------------------------------------------------------------- C12
\* C12: when the compressor cannot be set up (gzip or zlib with a level out
\* of range), Write returns that error with the count 0, having handed no
\* datagram to the connection and not having read the random source.
InvalidLevel ==
    /\ w.compressionType # CompressionNone
    /\ ( w.compressionLevel > 9 \/ w.compressionLevel < -2 )

C12_CompressionFailureFirst ==
    \A c \in Callers :
        /\ ( pc[c] # "idle" /\ InvalidLevel )
           => /\ pc[c] = "done"
              /\ err[c] = "level"
              /\ n[c] = 0
        /\ err[c] = "level"
           => /\ sent[c] = << >>
              /\ randReads[c] = 0
              /\ messageID[c] = << >>

C12_Witness ==
    \E c \in Callers :
        /\ pc[c] = "done"
        /\ err[c] = "level"
        /\ w.compressionType = CompressionZlib
        /\ BLen(buf[c]) = 3000

\* -------------------------------------------------------------------- C13
\* C13: a read of the random source that delivers fewer than 8 bytes makes
\* the chunked Write return a non-nil error and the count 0 with no datagram
\* handed to the connection; the source is read at most once per call, and
\* not at all on the unchunked path or before the pre-flight check passed.
C13_EntropyFailureAborts ==
    \A c \in Callers :
        /\ randReads[c] <= 1
        /\ ( randReads[c] = 1 /\ randGot[c] < 8 )
           => /\ pc[c] = "done"
              /\ err[c] # "nil"
              /\ n[c] = 0
              /\ sent[c] = << >>
        /\ ( count[c] <= 1 \/ pc[c] \in { "idle", "send", "rand" } )
           => randReads[c] = 0

C13_Witness ==
    \E c \in Callers :
        /\ pc[c] = "done"
        /\ randReads[c] = 1
        /\ randGot[c] = 7
        /\ err[c] = "rand"
        /\ count[c] = MaxChunkCount

\* -------------------------------------------------------------------- C14
\* C14: a call in which a step failed (the compressor's set-up, the read of
\* the random source, or a send that reported an error or a short count) has
\* returned, and returned a non-nil error; so a nil error means every step
\* succeeded.  The compressors write into a bytes.Buffer, whose writes
\* return no error, so cw.Write and cw.Close (whose result line 152
\* discards) have no failing outcome.
StepFailed(c) ==
    /\ pc[c] # "idle"
    /\ \/ InvalidLevel
       \/ randReads[c] >= 1 /\ randGot[c] < 8
       \/ ~ AllAccepted(c)

C15_DialFailureNotFatal ==
    logger.built =>
        /\ logger.result = "logger"
        /\ logger.err = "nil"
        /\ ( logger.address # "" /\ logger.dialFailed ) =>
               /\ logger.core = "production"
               /\ w = NoWriter
               /\ \A c \in Callers : pc[c] = "idle" /\ sent[c] = << >>
        /\ ( logger.address # "" /\ ~ logger.dialFailed ) =>
               /\ logger.dials = 1
               /\ logger.core = "gelf"
               /\ w = NewWriter(CompressionGzip, BestCompression)
        /\ logger.address = "" =>
               /\ logger.dials = 0
               /\ logger.core = "production"

C15_Witness ==
    /\ logger.built
    /\ logger.address # ""
    /\ logger.dialFailed
    /\ logger.dials = 1

\* the k-th datagram the call c emits when no other call runs: the compressed
\* payload itself, or the chunk k-1 of it under c's own message ID
OwnDatagram(c, k) ==
    IF count[c] > 1
    THEN LET off == ChunkOff(w, k - 1)
             end == IF off + w.chunkDataSize > BLen(cBytes[c])
                    THEN BLen(cBytes[c])
                    ELSE off + w.chunkDataSize
         IN  ChunkDatagram(messageID[c], k - 1, nChunks[c], BSlice(cBytes[c], off, end))
    ELSE cBytes[c]

\* C16 as stated: the chunk scratch buffer is shared between calls, so of two
\* overlapping calls with different message IDs that have both built a chunk
\* and not yet sent it, one is about to send a chunk that is not its own.
C16_SharedScratchMixes ==
    \A c, d \in ConcCallers :
        ( c # d /\ pc[c] = "filled" /\ pc[d] = "filled" /\ messageID[c] # messageID[d] ) =>
            \/ chunkBuf[BufOwner(c)] # OwnChunk(c)
            \/ chunkBuf[BufOwner(d)] # OwnChunk(d)

\* C16: calls of Write that overlap on one writer do not mix their records. The
\* compression and chunk buffers are locals of each call, so in every
\* interleaving each datagram a call emits, and the chunk it is about to
\* emit, is the one it emits when it runs alone.
C16_NoMixing ==
    \A c \in ConcCallers :
        /\ pc[c] = "filled" => chunkBuf[BufOwner(c)] = OwnChunk(c)
        /\ \A k \in 1..Len(sent[c]) : sent[c][k].data = OwnDatagram(c, k)

C16_Witness ==
    /\ pc[1] = "filled" /\ pc[2] = "filled"
    /\ messageID[1] # messageID[2]
    /\ Len(sent[1]) = 1 /\ Len(sent[2]) = 1
    /\ i[1] = 1 /\ i[2] = 1

\* C17: Write carries no state forward. No step of a call changes a field of
\* the writer, and once a call has returned nothing of it is left: every
\* call starts from the same writer and the same empty locals, whatever the
\* calls before it did.
C17_NoStateCarried ==
    [][ /\ w' = w
        /\ \A c \in Callers :
              pc'[c] = "idle" =>
                  /\ buf'[c] = << >> /\ cBytes'[c] = << >> /\ chunkBuf'[c] = << >>
                  /\ messageID'[c] = << >> /\ sent'[c] = << >>
                  /\ count'[c] = 0 /\ nChunks'[c] = 0 /\ i'[c] = 0 /\ bytesLeft'[c] = 0
                  /\ n'[c] = 0 /\ err'[c] = "nil"
                  /\ randReads'[c] = 0 /\ randGot'[c] = 0 ]_vars

C17_Witness ==
    \E c \in Callers :
        /\ pc[c] = "done" /\ err[c] = "conn"
        /\ Len(sent[c]) = 2 /\ messageID[c] # << >>
        /\ chunkBuf[c] = sent[c][2].data

\* C18: every datagram handed to the connection, chunked or not, is at most
\* chunkSize = 1420 bytes long; a chunk datagram is its 12 header bytes and a
\* payload part of at most chunkDataSize = chunkSize - 12 bytes.
C18_DatagramSizeBound ==
    /\ w.chunkSize = DefaultChunkSize
    /\ w.chunkDataSize = w.chunkSize - ChunkHeaderSize
    /\ \A c \in Callers : \A k \in 1..Len(sent[c]) :
          LET d == sent[c][k].data IN
          /\ BLen(d) <= w.chunkSize
          /\ Chunked(c) =>
                /\ HasChunkHeader(d)
                /\ BLen(d) = ChunkHeaderSize + BLen(PayloadPart(d))
                /\ BLen(PayloadPart(d)) <= w.chunkDataSize

C18_Witness ==
    \E c \in Callers :
        /\ Chunked(c) /\ Len(sent[c]) >= 2
        /\ BLen(sent[c][1].data) = DefaultChunkSize
        /\ BLen(PayloadPart(sent[c][1].data)) = cap

\* the most steps the call c can still take before it returns
StepsLeft(c) ==
    CASE pc[c] = "send"  -> 1
      [] pc[c] = "rand"  -> count[c] + 2
      [] pc[c] = "chunk" -> nChunks[c] - i[c] + 1
      [] OTHER           -> 0

\* C19: every call of Write terminates. A call hands the connection at most
\* one datagram on the unchunked path and at most count <= 128 datagrams on
\* the chunked path; a call that has started and not yet returned can always
\* take a step, it never waits; and each of its steps brings it closer to its
\* return, so the chunk loop always exits.
C19_Terminates ==
    /\ [] ( \A c \in Callers :
              /\ Len(sent[c]) <= IF count[c] > 1 THEN count[c] ELSE 1
              /\ Len(sent[c]) <= MaxChunkCount
              /\ pc[c] = "chunk" => i[c] = Len(sent[c]) /\ i[c] <= nChunks[c]
              /\ pc[c] = "send" => ENABLED SendUnchunked(c)
              /\ pc[c] = "rand" => ENABLED ReadMessageID(c)
              /\ pc[c] = "chunk" =>
                    \/ i[c] < nChunks[c] /\ ConnWrite(BLen(OwnChunk(c))) # { }
                    \/ ENABLED LoopExit(c) )
    /\ [][ \A c \in Callers :
              pc[c] \in { "send", "rand", "chunk" } =>
                  /\ StepsLeft(c)' < StepsLeft(c)
                  /\ StepsLeft(c)' >= 0 ]_vars

C19_Witness ==
    \E c \in Callers :
        /\ pc[c] = "done" /\ err[c] = "nil"
        /\ count[c] = MaxChunkCount
        /\ Len(sent[c]) = MaxChunkCount

\* C20: whenever Write returns a nil error, the count it returns is the length
\* of the compressed payload, and that is the number of payload bytes the
\* connection accepted, chunk headers not counted, on the unchunked and on the
\* chunked path; when the chunk loop ends without a failed send no payload
\* byte is left, so the "bytes left after sending" error is never returned.
C20_SuccessByteCount ==
    \A c \in Callers :
        /\ ( pc[c] = "done" /\ err[c] = "nil" ) =>
              /\ n[c] = BLen(cBytes[c])
              /\ AllAccepted(c)
              /\ IF Chunked(c)
                 THEN PayloadBytes(sent[c], 1, Len(sent[c])) = n[c]
                 ELSE Len(sent[c]) = 1 /\ sent[c][1].n = n[c]
        /\ ( pc[c] = "chunk" /\ i[c] = nChunks[c] ) => bytesLeft[c] = 0
        /\ err[c] # "left"

C20_Witness ==
    \E c \in Callers :
        /\ pc[c] = "done" /\ err[c] = "nil"
        /\ Chunked(c) /\ Len(sent[c]) = 3
        /\ n[c] = 2 * cap + 1

====
